---- MODULE Spec2Model ----
(***************************************************************************)
(* A model of the design-token pipeline: the build script that reshapes    *)
(* the exported token tree and rewrites its references, and the Style      *)
(* Dictionary preprocessors that collapse mode values per theme variant.   *)
(*                                                                         *)
(* JavaScript objects live on a heap (an address names an object), so that *)
(* sharing, shallow copies and in-place assignment are what they are in    *)
(* the code.                   A JavaScript string is a sequence of atoms  *)
(* (words and separators), so that template literals are concatenations    *)
(* and regular expressions are matched position by position.               *)
(***************************************************************************)
EXTENDS Integers, Sequences, FiniteSets, TLC

VARIABLES
    heap,         \* the objects of the run
    input,        \* the token tree handed to the preprocessors, as a value
    dictionary,   \* heap value of the tree every preprocessor receives
    out,          \* per theme variant: the value its preprocessor returned
    pc,           \* where the build script is
    designTokens, \* heap value of the imported design.tokens.json
    files,        \* tailwindTokensFiles: the files and their tokens
    walk,         \* mapObject's recursion inside the running mapTokens
    written,      \* the files outputTokens has written, as trees
    hist          \* a string and its successive rewritings

vars == <<heap, input, dictionary, out, pc, designTokens, files, walk, written, hist>>

----------------------------------------------------------------------------
(* Values.  A heap value is a string, an array or a pointer to an object;  *)
(* a tree value has the pointed-to objects written out in place.           *)

Str(s) == [t |-> "str", s |-> s]
Ref(a) == [t |-> "ref", a |-> a]
Arr(items) == [t |-> "arr", items |-> items]
Obj(f) == [t |-> "obj", f |-> f]

NoValue == [t |-> "none"]
EmptyObject == [k \in {} |-> NoValue]

Has(f, k) == k \in DOMAIN f

\* object[key]: reading a key the object lacks gives undefined
Undefined == [t |-> "undefined"]
Get(f, k) == IF Has(f, k) THEN f[k] ELSE Undefined

\* The heap: every run allocates in a region of its own, so that an address
\* does not depend on what other runs allocated before.  h.mem maps a region
\* to its objects, h.cur is the region the running code allocates in, and an
\* address is <<region, index>>.
Regions == {"input", "default", "brand-2", "brand-3", "design", "build"}
EmptyHeap == [r \in Regions |-> <<>>]
In(mem, region) == [mem |-> mem, cur |-> region, err |-> FALSE]
At(h, a) == h.mem[a[1]][a[2]]
Alloc(h, object) ==
    [h |-> [h EXCEPT !.mem[h.cur] = Append(@, object)],
     v |-> Ref(<<h.cur, Len(h.mem[h.cur]) + 1>>)]
\* object[key] = value, in place
Assign(h, a, key, value) == [h EXCEPT !.mem[a[1]][a[2]] = (key :> value) @@ @]

RECURSIVE Deref(_, _)
Deref(h, v) ==
    CASE v.t = "ref" -> Obj([k \in DOMAIN At(h, v.a) |-> Deref(h, At(h, v.a)[k])])
      [] v.t = "arr" -> Arr([i \in DOMAIN v.items |-> Deref(h, v.items[i])])
      [] OTHER -> v

RECURSIVE Store(_, _)
RECURSIVE StoreFields(_, _, _, _)
RECURSIVE StoreItems(_, _, _)
Store(h, node) ==
    IF h.err THEN [h |-> h, v |-> Undefined]
    ELSE CASE node.t = "obj" -> StoreFields(h, node.f, DOMAIN node.f, EmptyObject)
           [] node.t = "arr" -> StoreItems(h, node.items, <<>>)
           [] OTHER -> [h |-> h, v |-> node]

StoreFields(h, f, todo, acc) ==
    IF todo = {}
    THEN Alloc(h, acc)
    ELSE LET k == CHOOSE x \in todo : TRUE
             s == Store(h, f[k])
         IN StoreFields(s.h, f, todo \ {k}, acc @@ (k :> s.v))

StoreItems(h, items, acc) ==
    IF Len(acc) = Len(items)
    THEN [h |-> h, v |-> Arr(acc)]
    ELSE LET s == Store(h, items[Len(acc) + 1])
         IN StoreItems(s.h, items, Append(acc, s.v))

----------------------------------------------------------------------------
(* The mode resolver.                                                      *)

K(name) == <<name>>
kValue == K("$value")
kType == K("$type")
kExtensions == K("$extensions")
kMode == K("mode")

themes ==
    ("default" :> <<K("Light"), K("Dark")>>)
    @@ ("brand-2" :> <<K("Brand #2 - Light"), K("Brand #2 - Dark")>>)
    @@ ("brand-3" :> <<K("Brand #3 - Light"), K("Brand #3 - Dark")>>)

\* `${x}`: a string is itself, an object prints as [object Object], an
\* array as its elements joined by commas.
RECURSIVE Template(_)
RECURSIVE JoinItems(_, _)
Template(v) ==
    CASE v.t = "str" -> v.s
      [] v.t = "arr" -> JoinItems(v.items, 1)
      [] v.t = "undefined" -> <<"undefined">>
      [] OTHER -> <<"[object Object]">>

JoinItems(items, i) ==
    IF i > Len(items) THEN <<>>
    ELSE Template(items[i])
         \o (IF i < Len(items) THEN <<",">> \o JoinItems(items, i + 1) ELSE <<>>)

lightDarkSwapped(l, d) ==
    <<"light-dark(">> \o Template(d) \o <<", ">> \o Template(l) \o <<")">>

lightDark(l, d) == <<"light-dark(">> \o Template(l) \o <<", ">> \o Template(d) \o <<")">>

isLightIsDark(l, d) ==
    <<"var(--is-", "light", ", ">> \o Template(l) \o <<")", " ">>
    \o <<"var(--is-", "dark", ", ">> \o Template(d) \o <<")">>

isSize(b, c, f) ==
    <<"var(--is-", "size-base", ", ">> \o Template(b) \o <<")", " ">>
    \o <<"var(--is-", "size-compact", ", ">> \o Template(c) \o <<")", " ">>
    \o <<"var(--is-", "size-comfortable", ", ">> \o Template(f) \o <<")">>

assignValueInPlace(h, a, value) ==
    [h |-> Assign(h, a, kValue, Str(value)), v |-> Ref(a)]

\* { ...obj, $value }: a fresh object with obj's entries and the new value.
spreadWithValue(h, a, value) ==
    Alloc(h, (kValue :> Str(value)) @@ At(h, a))

\* the condition under which a node is resolved as a token carrying modes
hasModeMap(h, obj) ==
    /\ Has(obj, kValue)
    /\ Has(obj, kExtensions)
    /\ obj[kExtensions].t = "ref"
    /\ Has(At(h, obj[kExtensions].a), kMode)

modeOf(h, obj) == At(h, At(h, obj[kExtensions].a)[kMode].a)

hasLightOnly(mode, modeKeys) == Has(mode, modeKeys[1])

hasLightDark(mode, modeKeys) == Has(mode, modeKeys[1]) /\ Has(mode, modeKeys[2])

hasSizes(mode) ==
    Has(mode, K("Base")) /\ Has(mode, K("Compact")) /\ Has(mode, K("Comfortable"))

isColor(obj) == Get(obj, kType) = Str(<<"color">>)

resolveLightDarkOfDefault(h, value, modeKeys) ==
    LET obj == At(h, value.a)
        mode == modeOf(h, obj)
        l == Get(mode, K("Light"))
        d == Get(mode, K("Dark"))
    IN IF l = d
       THEN [h |-> h, v |-> value]
       ELSE spreadWithValue(h, value.a,
                IF isColor(obj) THEN lightDark(l, d) ELSE isLightIsDark(l, d))

\* the light/dark branch when the sizes, if all three are there, go first
resolveSizesBeforeLightDark(h, value, modeKeys) ==
    LET obj == At(h, value.a)
        mode == modeOf(h, obj)
        l == Get(mode, modeKeys[1])
        d == Get(mode, modeKeys[2])
    IN IF hasSizes(mode)
       THEN spreadWithValue(h, value.a,
                isSize(Get(mode, K("Base")), Get(mode, K("Compact")),
                       Get(mode, K("Comfortable"))))
       ELSE IF l = d
       THEN [h |-> h, v |-> value]
       ELSE spreadWithValue(h, value.a,
                IF isColor(obj) THEN lightDark(l, d) ELSE isLightIsDark(l, d))

\* the light/dark branch when it builds on the value the token has
resolveLightDarkWrapping(h, value, modeKeys) ==
    LET obj == At(h, value.a)
        mode == modeOf(h, obj)
        l == Get(mode, modeKeys[1])
        d == Get(mode, modeKeys[2])
    IN IF l = d
       THEN [h |-> h, v |-> value]
       ELSE spreadWithValue(h, value.a,
                IF isColor(obj) THEN lightDark(Get(obj, kValue), d)
                ELSE isLightIsDark(Get(obj, kValue), d))

\* one resolved token: the heap after it and the value stored in the result
resolveLightDark(h, value, modeKeys) ==
    LET obj == At(h, value.a)
        mode == modeOf(h, obj)
        l == Get(mode, modeKeys[1])
        d == Get(mode, modeKeys[2])
    IN IF l = d
       THEN [h |-> h, v |-> value]
       ELSE spreadWithValue(h, value.a,
                IF isColor(obj) THEN lightDark(l, d) ELSE isLightIsDark(l, d))

resolveSizesComparingTwo(h, value) ==
    LET mode == modeOf(h, At(h, value.a))
        b == Get(mode, K("Base"))
        c == Get(mode, K("Compact"))
        f == Get(mode, K("Comfortable"))
    IN IF b = c
       THEN [h |-> h, v |-> value]
       ELSE spreadWithValue(h, value.a, isSize(b, c, f))

resolveSizes(h, value) ==
    LET mode == modeOf(h, At(h, value.a))
        b == Get(mode, K("Base"))
        c == Get(mode, K("Compact"))
        f == Get(mode, K("Comfortable"))
    IN IF b = c /\ c = f
       THEN [h |-> h, v |-> value]
       ELSE spreadWithValue(h, value.a, isSize(b, c, f))

RECURSIVE resolveEntries(_, _, _, _, _)
resolveModesAt(h, a, modeKeys) ==
    resolveEntries(h, a, DOMAIN At(h, a), EmptyObject, modeKeys)

resolveEntries(h, a, todo, result, modeKeys) ==
    IF todo = {}
    THEN Alloc(h, result)
    ELSE LET key == CHOOSE k \in todo : TRUE
             value == At(h, a)[key]
             r == IF value.t # "ref"
                  THEN [h |-> h, v |-> value]
                  ELSE IF hasModeMap(h, At(h, value.a))
                          /\ hasLightDark(modeOf(h, At(h, value.a)), modeKeys)
                  THEN resolveLightDark(h, value, modeKeys)
                  ELSE IF hasModeMap(h, At(h, value.a)) /\ hasSizes(modeOf(h, At(h, value.a)))
                  THEN resolveSizes(h, value)
                  ELSE resolveModesAt(h, value.a, modeKeys)
         IN resolveEntries(r.h, a, todo \ {key}, result @@ (key :> r.v), modeKeys)

resolveModes(h, tokens, modeKeys) == resolveModesAt(h, tokens.a, modeKeys)

----------------------------------------------------------------------------
(* The mode resolver of the single-theme configuration.                    *)

\* the resolution when the branches of the comparison are taken the other
\* way round
singleThemeLightDarkInverted(h, value) ==
    LET obj == At(h, value.a)
        mode == modeOf(h, obj)
        l == Get(mode, K("Light"))
        d == Get(mode, K("Dark"))
    IN IF l = d
       THEN spreadWithValue(h, value.a,
                IF isColor(obj) THEN lightDark(l, d) ELSE isLightIsDark(l, d))
       ELSE [h |-> h, v |-> value]

\* the resolution of a token that holds Light and Dark
singleThemeLightDark(h, value) ==
    LET obj == At(h, value.a)
        mode == modeOf(h, obj)
        l == Get(mode, K("Light"))
        d == Get(mode, K("Dark"))
    IN IF l # d
       THEN spreadWithValue(h, value.a,
                IF isColor(obj)
                THEN <<"light-dark(">> \o Template(l) \o <<", ">> \o Template(d) \o <<")">>
                ELSE <<"var(--is-", "light", ", ">> \o Template(l) \o <<")", " ">>
                     \o <<"var(--is-", "dark", ", ">> \o Template(d) \o <<")">>)
       ELSE [h |-> h, v |-> value]

\* the resolution of a token that holds Base, Compact and Comfortable
singleThemeSizes(h, value) ==
    LET mode == modeOf(h, At(h, value.a))
        b == Get(mode, K("Base"))
        c == Get(mode, K("Compact"))
        f == Get(mode, K("Comfortable"))
    IN IF ~(b = c /\ c = f)
       THEN spreadWithValue(h, value.a,
                <<"var(--is-", "size-base", ", ">> \o Template(b) \o <<")", " ">>
                \o <<"var(--is-", "size-compact", ", ">> \o Template(c) \o <<")", " ">>
                \o <<"var(--is-", "size-comfortable", ", ">> \o Template(f) \o <<")">>)
       ELSE [h |-> h, v |-> value]

RECURSIVE singleThemeEntries(_, _, _, _)
resolveModesSingleThemeAt(h, a) == singleThemeEntries(h, a, DOMAIN At(h, a), EmptyObject)

singleThemeEntries(h, a, todo, result) ==
    IF todo = {}
    THEN Alloc(h, result)
    ELSE LET key == CHOOSE k \in todo : TRUE
             value == At(h, a)[key]
             r == IF value.t # "ref"
                  THEN [h |-> h, v |-> value]
                  ELSE IF hasModeMap(h, At(h, value.a))
                          /\ Has(modeOf(h, At(h, value.a)), K("Light"))
                          /\ Has(modeOf(h, At(h, value.a)), K("Dark"))
                  THEN singleThemeLightDark(h, value)
                  ELSE IF hasModeMap(h, At(h, value.a)) /\ hasSizes(modeOf(h, At(h, value.a)))
                  THEN singleThemeSizes(h, value)
                  ELSE resolveModesSingleThemeAt(h, value.a)
         IN singleThemeEntries(r.h, a, todo \ {key}, result @@ (key :> r.v))

\* resolveModes(tokens) of the single-theme configuration
resolveModesSingleTheme(h, tokens) == resolveModesSingleThemeAt(h, tokens.a)

----------------------------------------------------------------------------
(* Strings of the build script.  Words, and the separators { } . and the   *)
(* space, are the atoms; no two words are adjacent in a path, so a regular *)
(* expression of the script matches atom by atom.                          *)

IsAt(s, i, lit) ==
    /\ i >= 1
    /\ i + Len(lit) - 1 <= Len(s)
    /\ SubSeq(s, i, i + Len(lit) - 1) = lit

includes(s, lit) == \E i \in 1..Len(s) : IsAt(s, i, lit)

startsWith(s, prefix) == IsAt(s, 1, prefix)

endsWith(s, suffix) == IsAt(s, Len(s) - Len(suffix) + 1, suffix)

Max(S) == CHOOSE x \in S : \A y \in S : y <= x

\* String.prototype.replace(literal, ''): the first occurrence is removed
removeFirst(s, lit) ==
    IF includes(s, lit)
    THEN LET i == CHOOSE j \in 1..Len(s) : IsAt(s, j, lit) /\ \A k \in 1..(j - 1) : ~IsAt(s, k, lit)
         IN SubSeq(s, 1, i - 1) \o SubSeq(s, i + Len(lit), Len(s))
    ELSE s

\* key.replace(/^Family /, ''): only a match at the start is removed
removeLeading(s, lit) == IF startsWith(s, lit) THEN SubSeq(s, Len(lit) + 1, Len(s)) ELSE s

\* A pattern of rewriteReferences: the literal `pre`, then, when `group` is
\* set, (.+) followed by the literal `mid`, then, when `tail` is set,
\* ( .+)?} .  The replacement is `to`, then $1 and `sep` when there is a
\* group, then $2 and } when there is a tail.
Pattern(pre, group, mid, tail, to, sep) ==
    [pre |-> pre, group |-> group, mid |-> mid, tail |-> tail, to |-> to, sep |-> sep]

\* ( .+)?} from position p on: the position of the closing brace, 0 for no
\* match.  The optional group is tried first and takes the last brace.
tailEnd(s, p) ==
    IF p > Len(s) THEN 0
    ELSE IF s[p] = " "
    THEN LET closing == {q \in (p + 2)..Len(s) : s[q] = "}"}
         IN IF closing = {} THEN 0 ELSE Max(closing)
    ELSE IF s[p] = "}" THEN p
    ELSE 0

\* the ends of (.+) for which the rest of the pattern matches
groupEnds(s, i, pat) ==
    {e \in (i + Len(pat.pre))..Len(s) :
        /\ IsAt(s, e + 1, pat.mid)
        /\ pat.tail => tailEnd(s, e + Len(pat.mid) + 1) # 0}

\* a match of the pattern starting at position i: (.+) is greedy
matchAt(s, i, pat) ==
    IF ~IsAt(s, i, pat.pre) THEN [ok |-> FALSE]
    ELSE IF ~pat.group
    THEN [ok |-> TRUE, end |-> i + Len(pat.pre) - 1, out |-> pat.to]
    ELSE IF groupEnds(s, i, pat) = {} THEN [ok |-> FALSE]
    ELSE LET e == Max(groupEnds(s, i, pat))
             g1 == SubSeq(s, i + Len(pat.pre), e)
             p == e + Len(pat.mid) + 1
         IN IF pat.tail
            THEN [ok |-> TRUE, end |-> tailEnd(s, p),
                  out |-> pat.to \o g1 \o pat.sep \o SubSeq(s, p, tailEnd(s, p) - 1) \o <<"}">>]
            ELSE [ok |-> TRUE, end |-> p - 1, out |-> pat.to \o g1 \o pat.sep]

\* String.prototype.replaceAll(/pattern/g, replacement): matches are taken
\* left to right and the search resumes after each match
RECURSIVE replaceFrom(_, _, _)
replaceFrom(s, i, pat) ==
    IF i > Len(s) THEN <<>>
    ELSE LET m == matchAt(s, i, pat)
         IN IF m.ok
            THEN m.out \o replaceFrom(s, m.end + 1, pat)
            ELSE <<s[i]>> \o replaceFrom(s, i + 1, pat)

replaceAll(s, pat) == replaceFrom(s, 1, pat)

ThemeItem(words, root) ==
    Pattern(<<"{", "Theme", ".">>, TRUE, <<".">> \o words, TRUE, <<"{", root, ".">>, <<>>)

\* the replacement is put after the prefix, which stays
LiteralKeepingPrefix(from, to) == Pattern(from, FALSE, <<>>, FALSE, from \o Tail(to), <<>>)

Literal(from, to) == Pattern(from, FALSE, <<>>, FALSE, to, <<>>)

rules ==
    << ThemeItem(<<"Font", " ", "Family">>, "font"),
       ThemeItem(<<"Font", " ", "Size">>, "text"),
       ThemeItem(<<"Letter", " ", "Spacing">>, "tracking"),
       ThemeItem(<<"Line", " ", "Height">>, "leading"),
       Literal(<<"{", "Size", ".", "Depth", ".">>, <<"{", "depth", ".">>),
       Literal(<<"{", "Color", " ", "Primitives", ".">>, <<"{", "color", ".">>),
       Literal(<<"{", "Typography", " ", "Primitives", ".", "Scale", ".", "Scale", " ">>,
               <<"{", "text", ".">>),
       Literal(<<"{", "Typography", " ", "Primitives", ".", "Weight", ".", "Weight", " ">>,
               <<"{", "font-weight", ".">>),
       Pattern(<<"{", "Typography", " ", "Primitives", ".">>, TRUE, <<".", "Family", " ">>,
               FALSE, <<"{", "font", ".">>, <<".">>) >>

RECURSIVE applyRules(_, _)
applyRules(s, n) == IF n = 0 THEN s ELSE replaceAll(applyRules(s, n - 1), rules[n])

rewriteReferences(value) == applyRules(value, Len(rules))

----------------------------------------------------------------------------
(* Objects of the build script.                                            *)

isObject(v) == v.t = "ref" \/ v.t = "arr"

isToken(h, v) == v.t = "ref" /\ Has(At(h, v.a), kValue)

\* a TypeError was thrown: the run is over, whatever is computed after it
Throw(h) == [h EXCEPT !.err = TRUE]

\* value[key]; reading a property of undefined throws
Prop(h, v, key) ==
    CASE v.t = "undefined" -> [h |-> Throw(h), v |-> Undefined]
      [] v.t = "ref" -> [h |-> h, v |-> Get(At(h, v.a), key)]
      [] OTHER -> [h |-> h, v |-> Undefined]

\* value[k1][k2]...
RECURSIVE Chain(_, _, _)
Chain(h, v, keys) ==
    IF keys = <<>> THEN [h |-> h, v |-> v]
    ELSE LET r == Prop(h, v, Head(keys))
         IN Chain(r.h, r.v, Tail(keys))

\* the own entries of a value, as { ...value } sees them
Entries(h, v) == IF v.t = "ref" THEN At(h, v.a) ELSE EmptyObject

\* later entries win: { ...a, ...b }
Merge(a, b) == b @@ a

\* omit(value, keys): a shallow copy without the keys
omit(h, v, keys) == Alloc(h, [k \in DOMAIN Entries(h, v) \ keys |-> Entries(h, v)[k]])

\* structuredClone: a deep copy in which an object reached twice is copied
\* once; memo maps the objects copied so far to their copies
RECURSIVE cloneValue(_, _, _)
RECURSIVE cloneFields(_, _, _, _, _)
RECURSIVE cloneItems(_, _, _, _)
cloneValue(h, v, memo) ==
    CASE v.t = "ref" ->
            IF v.a \in DOMAIN memo
            THEN [h |-> h, v |-> Ref(memo[v.a]), memo |-> memo]
            ELSE LET fresh == Alloc(h, EmptyObject)
                 IN cloneFields(fresh.h, v.a, fresh.v.a, DOMAIN At(h, v.a),
                                (v.a :> fresh.v.a) @@ memo)
      [] v.t = "arr" -> cloneItems(h, v.items, <<>>, memo)
      [] OTHER -> [h |-> h, v |-> v, memo |-> memo]

cloneFields(h, from, to, todo, memo) ==
    IF h.err \/ todo = {}
    THEN [h |-> h, v |-> Ref(to), memo |-> memo]
    ELSE LET k == CHOOSE x \in todo : TRUE
             c == cloneValue(h, At(h, from)[k], memo)
         IN cloneFields(Assign(c.h, to, k, c.v), from, to, todo \ {k}, c.memo)

cloneItems(h, items, acc, memo) ==
    IF h.err \/ Len(acc) = Len(items)
    THEN [h |-> h, v |-> Arr(acc), memo |-> memo]
    ELSE LET c == cloneValue(h, items[Len(acc) + 1], memo)
         IN cloneItems(c.h, items, Append(acc, c.v), c.memo)

NoMemo == [a \in {} |-> <<>>]

cloned(c) == [h |-> c.h, v |-> c.v]

structuredClone(h, v) == cloned(cloneValue(h, v, NoMemo))

----------------------------------------------------------------------------
(* Unit conversion.                                                        *)

basePxFontSize == 16

MaxPx == 24

NaN == 0 - 1

\* parseFloat: the number the string starts with
parseFloat(s) ==
    IF s # <<>> /\ \E n \in 0..MaxPx : ToString(n) = s[1]
    THEN CHOOSE n \in 0..MaxPx : ToString(n) = s[1]
    ELSE NaN

RECURSIVE stripZeros(_)
stripZeros(d) == IF d % 10 = 0 THEN stripZeros(d \div 10) ELSE d

\* `${n / basePxFontSize}`: the shortest decimal of n sixteenths
quotientString(n) ==
    IF n = NaN THEN "NaN"
    ELSE LET r == n % basePxFontSize
             whole == ToString(n \div basePxFontSize)
             tenThousandths == (r * 10000) \div basePxFontSize
         IN IF r = 0 THEN whole
            ELSE whole \o "."
                 \o (IF tenThousandths < 1000 THEN "0" ELSE "")
                 \o ToString(stripZeros(tenThousandths))

toRemKeepingUnit(s) == <<quotientString(parseFloat(s))>> \o Tail(s)

toRem(s) == <<quotientString(parseFloat(s)), "rem">>

\* the callback pxToRem gives mapObject for the mode map
RECURSIVE remModes(_, _, _, _)
remModes(h, mode, todo, acc) ==
    IF h.err \/ todo = {} THEN Alloc(h, acc)
    ELSE LET k == CHOOSE x \in todo : TRUE
             value == mode[k]
         IN IF value.t # "str"
            THEN remModes(Throw(h), mode, todo \ {k}, acc)
            ELSE remModes(h, mode, todo \ {k},
                     (k :> (IF includes(value.s, <<"{">>) THEN value ELSE Str(toRem(value.s))))
                     @@ acc)

\* object[key] = the value a call returned, in the heap it left
AssignResult(r, a, key) == Assign(r.h, a, key, r.v)

\* '$extensions' in token && 'mode' in token.$extensions
hasMode(h, token) ==
    LET tok == At(h, token.a)
        ext == Get(tok, kExtensions)
    IN Has(tok, kExtensions) /\ ext.t = "ref" /\ Has(At(h, ext.a), kMode)

\* the first statement of pxToRem
remValue(h, token) ==
    LET value == Get(At(h, token.a), kValue)
    IN IF value.t = "str" /\ ~includes(value.s, <<"{">>)
       THEN Assign(h, token.a, kValue, Str(toRem(value.s)))
       ELSE h

\* the second statement of pxToRem
remModeMap(h, token) ==
    IF hasMode(h, token)
    THEN LET ext == At(h, token.a)[kExtensions]
             mode == Entries(h, At(h, ext.a)[kMode])
         IN AssignResult(remModes(h, mode, DOMAIN mode, EmptyObject), ext.a, kMode)
    ELSE h

pxToRem(h, token) == remModeMap(remValue(h, token), token)

----------------------------------------------------------------------------
(* Reference rewriting inside a token.                                     *)

\* mapObject(object, rewrite, { deep: true }) on the tree below a value: the
\* callback sees the entries of objects; an array is mapped element by
\* element and only its objects and arrays are entered
RECURSIVE rewriteInTree(_)
rewriteInTree(x) ==
    CASE x.t = "obj" ->
            Obj([k \in DOMAIN x.f |->
                    IF x.f[k].t = "str"
                    THEN (IF includes(x.f[k].s, <<"{">>)
                          THEN Str(rewriteReferences(x.f[k].s))
                          ELSE x.f[k])
                    ELSE rewriteInTree(x.f[k])])
      [] x.t = "arr" ->
            Arr([i \in DOMAIN x.items |->
                    IF x.items[i].t \in {"obj", "arr"}
                    THEN rewriteInTree(x.items[i])
                    ELSE x.items[i]])
      [] OTHER -> x

rewriteReferencesInObject(h, v) == Store(h, rewriteInTree(Deref(h, v)))

\* the if / else if on token.$value
rewriteValue(h, token) ==
    LET value == Get(At(h, token.a), kValue)
    IN IF isObject(value)
       THEN AssignResult(rewriteReferencesInObject(h, value), token.a, kValue)
       ELSE IF value.t = "str" /\ includes(value.s, <<"{">>)
       THEN Assign(h, token.a, kValue, Str(rewriteReferences(value.s)))
       ELSE h

\* the if on token.$extensions.mode
rewriteMode(h, token) ==
    IF hasMode(h, token)
    THEN LET ext == At(h, token.a)[kExtensions]
         IN AssignResult(rewriteReferencesInObject(h, At(h, ext.a)[kMode]), ext.a, kMode)
    ELSE h

rewriteReferencesInToken(h, token) == rewriteMode(rewriteValue(h, token), token)

----------------------------------------------------------------------------
(* mapTokens: structuredClone, then mapObject over the clone with          *)
(* { deep: true }.  mapObject's recursion is kept as a stack of frames, so *)
(* that one call of the mapper is one step.                                *)

Words2(a, b) == <<a, " ", b>>
Words3(a, b, c) == <<a, " ", b, " ", c>>

Kept(h, key, v) == [h |-> h, skip |-> FALSE, key |-> key, v |-> v]
mapObjectSkip(h) == [h |-> h, skip |-> TRUE, key |-> <<>>, v |-> Undefined]

\* (key, token) => [key, pxToRem(token)]
mapPxToRem(h, key, token) == Kept(pxToRem(h, token), key, token)

\* the mapper of themeTokens.font
mapFontFamily(h, key, token) ==
    LET h1 == Assign(h, token.a, kType, Str(<<"fontFamily">>))
        value == Get(At(h1, token.a), kValue)
        generic == CASE key = Words2("Family", "Sans") -> <<"sans-serif">>
                     [] key = Words2("Family", "Serif") -> <<"serif">>
                     [] key = Words2("Family", "Mono") -> <<"monospace">>
                     [] OTHER -> <<>>
        h2 == IF generic = <<>> THEN h1
              ELSE Assign(h1, token.a, kValue, Arr(<<value, Str(generic)>>))
    IN Kept(h2, removeLeading(key, <<"Family", " ">>), token)

\* (key, token) => [key.replace(/Scale /, ''), token]
mapScale(h, key, token) == Kept(h, removeFirst(key, <<"Scale", " ">>), token)

\* the mapper without its skip
mapWeightKeepingItalic(h, key, token) ==
    Kept(h, removeLeading(key, <<"Weight", " ">>), token)

\* the mapper of themeTokens['font-weight']
mapWeight(h, key, token) ==
    IF endsWith(key, <<" ", "Italic">>)
    THEN mapObjectSkip(h)
    ELSE Kept(h, removeLeading(key, <<"Weight", " ">>), token)

\* the mapper of the output loop
mapRewrite(h, key, token) == Kept(rewriteReferencesInToken(h, token), key, token)

applyMapper(name, h, key, token) ==
    CASE name = "pxToRem" -> mapPxToRem(h, key, token)
      [] name = "font" -> mapFontFamily(h, key, token)
      [] name = "scale" -> mapScale(h, key, token)
      [] name = "weight" -> mapWeight(h, key, token)
      [] name = "rewrite" -> mapRewrite(h, key, token)

Frame(from, to, todo) == [from |-> from, to |-> to, todo |-> todo]

Idle ==
    [stack |-> <<>>, seen |-> NoMemo, mapper |-> "none", clone |-> Undefined,
     root |-> Undefined]

\* mapObject's first frame, on the clone c
beginWalk(c, mapper) ==
    IF c.v.t # "ref"
    THEN [h |-> Throw(c.h), w |-> Idle]
    ELSE LET target == Alloc(c.h, EmptyObject)
         IN [h |-> target.h,
             w |-> [stack |-> <<Frame(c.v.a, target.v.a, DOMAIN At(c.h, c.v.a))>>,
                    seen |-> (c.v.a :> target.v.a),
                    mapper |-> mapper,
                    clone |-> c.v,
                    root |-> target.v]]

\* mapTokens up to the first entry: the clone, and mapObject's first frame
mapTokensBegin(h, source, mapper) == beginWalk(structuredClone(h, source), mapper)

\* the entry mapObject takes next
nextKey(w) == CHOOSE k \in Head(w.stack).todo : TRUE

\* target[newKey] = newValue, unless the mapper returned mapObjectSkip
assignMapped(m, to) == IF m.skip THEN m.h ELSE Assign(m.h, to, m.key, m.v)

\* one turn of mapObject's loop over the entries of the object on top of
\* the stack; an object with no entry left returns to its caller
mapStep(h, w) ==
    LET top == Head(w.stack)
    IN IF top.todo = {}
       THEN [h |-> h, w |-> [w EXCEPT !.stack = Tail(@)]]
       ELSE LET key == nextKey(w)
                value == At(h, top.from)[key]
                rest == [w EXCEPT !.stack[1].todo = @ \ {key}]
            IN IF isToken(h, value)
               THEN [h |-> assignMapped(applyMapper(w.mapper, h, key, value), top.to),
                     w |-> rest]
               ELSE IF value.t # "ref"
               THEN [h |-> Assign(h, top.to, key, value), w |-> rest]
               ELSE IF value.a \in DOMAIN w.seen
               THEN [h |-> Assign(h, top.to, key, Ref(w.seen[value.a])), w |-> rest]
               ELSE LET target == Alloc(h, EmptyObject)
                    IN [h |-> Assign(target.h, top.to, key, target.v),
                        w |-> [rest EXCEPT
                                 !.stack = <<Frame(value.a, target.v.a, DOMAIN At(h, value.a))>> \o @,
                                 !.seen = (value.a :> target.v.a) @@ @]]

RECURSIVE mapRun(_, _)
\* mapObject from where r left it
mapRunFrom(r) == mapRun(r.h, r.w)

mapRun(h, w) ==
    IF h.err \/ w.stack = <<>> THEN [h |-> h, v |-> w.root]
    ELSE mapRunFrom(mapStep(h, w))

mapTokens(h, source, mapper) == mapRunFrom(mapTokensBegin(h, source, mapper))

----------------------------------------------------------------------------
(* The reshaping: typographyTheme, themeTokens and typographyTokens.       *)

\* { ...value }
spread(h, v) == Alloc(h, Entries(h, v))

\* the entries kept when the prefix is looked for anywhere in the name
prefixedAnywhere(h, theme, prefix) ==
    {p \in UNION {{<<g, t>> : t \in DOMAIN Entries(h, At(h, theme.a)[g])} :
                     g \in DOMAIN At(h, theme.a)} :
        includes(p[2], prefix)}

\* the entries extractTypographyTokensWithPrefix keeps: group, item
prefixed(h, theme, prefix) ==
    {p \in UNION {{<<g, t>> : t \in DOMAIN Entries(h, At(h, theme.a)[g])} :
                     g \in DOMAIN At(h, theme.a)} :
        startsWith(p[2], prefix)}

\* the key when the category and the rest of the name are joined by a dot
extractedKeyDotted(p, prefix) == p[1] \o <<".">> \o removeFirst(p[2], prefix)

extractedKey(p, prefix) == p[1] \o removeFirst(p[2], prefix)

extractTypographyTokensWithPrefix(h, theme, prefix) ==
    LET kept == prefixed(h, theme, prefix)
    IN [k \in {extractedKey(p, prefix) : p \in kept} |->
          LET p == CHOOSE q \in kept : extractedKey(q, prefix) = k
          IN At(h, At(h, theme.a)[p[1]].a)[p[2]]]

kUtilities == K("Utilities")
kTheme == K("Theme")
kSize == K("Size")
kColorPrimitives == Words2("Color", "Primitives")
kTypographyPrimitives == Words2("Typography", "Primitives")
kEffectStyles == K("Effect-styles")
kTypographyStyles == K("Typography-styles")

\* the same operations on the value a call returned, in the heap it left
spreadOf(r) == spread(r.h, r.v)
omitOf(r, keys) == omit(r.h, r.v, keys)
mapTokensOf(r, mapper) == mapTokens(r.h, r.v, mapper)

\* { ...base, [key]: value }
withValue(base, key, r) == Alloc(r.h, Merge(Entries(r.h, base), key :> r.v))

\* { ...mapped, ...extractTypographyTokensWithPrefix(prefix) }
withExtracted(m, tt, prefix) ==
    Alloc(m.h, Merge(Entries(m.h, m.v), extractTypographyTokensWithPrefix(m.h, tt, prefix)))

\* { ...extractTypographyTokensWithPrefix(prefix) }
extracted(h, tt, prefix) == Alloc(h, extractTypographyTokensWithPrefix(h, tt, prefix))

\* { ...omit(designTokens.Theme[name], ['Utilities']) }
themeColors(h, dt, name) ==
    spreadOf(omitOf(Chain(h, dt, <<kTheme, name>>), {kUtilities}))

\* { ...omit(designTokens.Theme.Text, ...), icon: omit(designTokens.Theme.Icon, ...) }
textColors(text, dt) ==
    withValue(text.v, K("icon"),
              omitOf(Chain(text.h, dt, <<kTheme, K("Icon")>>), {kUtilities}))

\* { ...designTokens.Size.Space, Icon: designTokens.Size.Icon }
spacingSource(space, dt) ==
    withValue(space.v, K("Icon"), Chain(space.h, dt, <<kSize, K("Icon")>>))

\* { ...designTokens[a][b] }
spreadAt(h, dt, path) == spreadOf(Chain(h, dt, path))

\* one entry of the themeTokens literal
themeEntry(h, dt, tt, root) ==
    CASE root = K("color") -> spreadOf(Prop(h, dt, kColorPrimitives))
      [] root = K("background-color") -> themeColors(h, dt, K("Background"))
      [] root = K("text-color") ->
            textColors(omitOf(Chain(h, dt, <<kTheme, K("Text")>>), {kUtilities}), dt)
      [] root = K("border-color") -> themeColors(h, dt, K("Border"))
      [] root = K("ring-color") -> themeColors(h, dt, K("Border"))
      [] root = K("spacing") ->
            spreadOf(mapTokensOf(spacingSource(Chain(h, dt, <<kSize, K("Space")>>), dt),
                                 "pxToRem"))
      [] root = K("font") ->
            withExtracted(
                mapTokensOf(omitOf(Prop(h, dt, kTypographyPrimitives),
                                   {K("Weight"), K("Scale")}),
                            "font"),
                tt, Words2("Font", "Family"))
      [] root = K("text") ->
            mapTokensOf(
                withExtracted(
                    mapTokensOf(Chain(h, dt, <<kTypographyPrimitives, K("Scale")>>), "scale"),
                    tt, Words2("Font", "Size")),
                "pxToRem")
      [] root = K("font-weight") ->
            withExtracted(
                mapTokensOf(Chain(h, dt, <<kTypographyPrimitives, K("Weight")>>), "weight"),
                tt, Words2("Font", "Weight"))
      [] root = K("tracking") ->
            mapTokensOf(extracted(h, tt, Words2("Letter", "Spacing")), "pxToRem")
      [] root = K("leading") ->
            mapTokensOf(extracted(h, tt, Words2("Line", "Height")), "pxToRem")
      [] root = K("radius") -> spreadAt(h, dt, <<kSize, K("Radius")>>)
      [] root = K("depth") -> spreadAt(h, dt, <<kSize, K("Depth")>>)
      [] root = K("shadow") -> spreadAt(h, dt, <<kEffectStyles, Words2("Drop", "Shadow")>>)
      [] root = K("inset-shadow") -> spreadAt(h, dt, <<kEffectStyles, Words2("Inner", "Shadow")>>)
      [] root = K("blur") -> spreadAt(h, dt, <<kSize, K("Blur")>>)
      [] root = K("default-border-width") -> Chain(h, dt, <<kSize, K("Stroke"), K("Border")>>)
      [] root = K("default-ring-width") ->
            Chain(h, dt, <<kSize, K("Stroke"), Words2("Focus", "Ring")>>)

themeRoots ==
    << K("color"), K("background-color"), K("text-color"), K("border-color"),
       K("ring-color"), K("spacing"), K("font"), K("text"), K("font-weight"),
       K("tracking"), K("leading"), K("radius"), K("depth"), K("shadow"),
       K("inset-shadow"), K("blur"), K("default-border-width"),
       K("default-ring-width") >>

\* the themeTokens literal, its entries evaluated in order
RECURSIVE themeEntries(_, _, _, _, _)
\* the entry e is the value of root i; the literal goes on after it
themeEntriesAfter(e, dt, tt, i, acc) ==
    themeEntries(e.h, dt, tt, i + 1, (themeRoots[i] :> e.v) @@ acc)

themeEntries(h, dt, tt, i, acc) ==
    IF h.err THEN [h |-> h, v |-> Undefined]
    ELSE IF i > Len(themeRoots) THEN Alloc(h, acc)
    ELSE themeEntriesAfter(themeEntry(h, dt, tt, themeRoots[i]), dt, tt, i, acc)

typographyTheme(h, dt) ==
    omitOf(Prop(h, dt, kTheme), {K("Background"), K("Text"), K("Icon"), K("Border")})

themeTokensWith(tt, dt) == themeEntries(tt.h, dt, tt.v, 1, EmptyObject)

themeTokens(h, dt) == themeTokensWith(typographyTheme(h, dt), dt)

\* { typography: omitted }
typographyOf(o) == Alloc(o.h, K("typography") :> o.v)

typographyTokens(h, dt) ==
    typographyOf(omitOf(Prop(h, dt, kTypographyStyles), {<<".", "Utilities">>}))

filesOf(theme, typography) ==
    [h |-> typography.h,
     v |-> << [file |-> "./packages/ui/tokens/theme.tokens.json", tokens |-> theme],
              [file |-> "./packages/ui/tokens/typography.tokens.json", tokens |-> typography.v] >>]

filesAfter(theme, dt) == filesOf(theme.v, typographyTokens(theme.h, dt))

tailwindTokensFiles(h, dt) == filesAfter(themeTokens(h, dt), dt)

\* the build script is not part of the run
NoBuild ==
    /\ pc = "none"
    /\ designTokens = Undefined
    /\ files = <<>>
    /\ walk = Idle
    /\ written = <<>>

----------------------------------------------------------------------------
(* The preprocessor run: one preprocessor per theme variant, each applied  *)
(* once to the same dictionary, in any order.                              *)

MaxModes == 5

TokenTypes == {<<"color">>, <<"dimension">>}
ModeValues == {<<"#fff">>, <<"{", "color", ".", "Black", "}">>}
\* The export holds the default brand and brand 2; brand 3 is registered as
\* a theme and has overridden nothing yet, so its pass meets only sparse
\* mode data.
ModeNames ==
    {K("Light"), K("Dark"),
     K("Brand #2 - Light"), K("Brand #2 - Dark"),
     K("Base"), K("Compact"), K("Comfortable")}

ModeMaps ==
    UNION {[names -> ModeValues] :
              names \in {n \in SUBSET ModeNames : Cardinality(n) <= MaxModes}}

ModedToken(type, value, modes) ==
    Obj((kType :> Str(type)) @@ (kValue :> Str(value))
        @@ (kExtensions :> Obj(kMode :> Obj([k \in DOMAIN modes |-> Str(modes[k])]))))

PlainToken == Obj((kType :> Str(<<"color">>)) @@ (kValue :> Str(<<"#fff">>)))

InputTree(token) ==
    Obj(K("Theme") :> Obj((K("Primary") :> token) @@ (K("Plain") :> PlainToken)))

InputTrees ==
    {InputTree(ModedToken(type, value, modes)) :
        type \in TokenTypes, value \in ModeValues, modes \in ModeMaps}

Variants == DOMAIN themes

NotRun == [t |-> "none"]

Init ==
    /\ input \in InputTrees
    /\ LET s == Store(In(EmptyHeap, "input"), input)
       IN heap = s.h.mem /\ dictionary = s.v
    /\ out = [v \in Variants |-> NotRun]
    /\ NoBuild
    /\ hist = <<>>

\* registerPreprocessor's callback for variant v
Preprocess(v) ==
    /\ out[v] = NotRun
    /\ LET r == resolveModes(In(heap, v), dictionary, themes[v])
       IN heap' = r.h.mem /\ out' = [out EXCEPT ![v] = r.v]
    /\ UNCHANGED <<input, dictionary, pc, designTokens, files, walk, written, hist>>

Next == \E v \in Variants : Preprocess(v)

Spec == Init /\ [][Next]_vars

----------------------------------------------------------------------------
(* The same dictionary given to the preprocessor of the single-theme       *)
(* configuration, and a pass given what it returned.                       *)

SingleTheme == "custom/resolve-modes"

\* the second application of a variant's pass
Again(v) == v \o " again"

Passes == Variants \cup {SingleTheme} \cup {Again(v) : v \in Variants}

InitPasses ==
    /\ input \in InputTrees
    /\ LET s == Store(In(EmptyHeap, "input"), input)
       IN heap = s.h.mem @@ (SingleTheme :> <<>>) /\ dictionary = s.v
    /\ out = [p \in Passes |-> NotRun]
    /\ NoBuild
    /\ hist = <<>>

\* the preprocessor custom/resolve-modes
PreprocessSingleTheme ==
    /\ out[SingleTheme] = NotRun
    /\ LET r == resolveModesSingleTheme(In(heap, SingleTheme), dictionary)
       IN heap' = r.h.mem /\ out' = [out EXCEPT ![SingleTheme] = r.v]
    /\ UNCHANGED <<input, dictionary, pc, designTokens, files, walk, written, hist>>

\* the pass of variant v on the tree it returned
PreprocessAgain(v) ==
    /\ out[v] # NotRun
    /\ out[Again(v)] = NotRun
    /\ LET r == resolveModes(In(heap, v), out[v], themes[v])
       IN heap' = r.h.mem /\ out' = [out EXCEPT ![Again(v)] = r.v]
    /\ UNCHANGED <<input, dictionary, pc, designTokens, files, walk, written, hist>>

NextSingleTheme == Preprocess("default") \/ PreprocessSingleTheme

SpecSingleTheme == InitPasses /\ [][NextSingleTheme]_vars

NextTwice == \E v \in Variants : Preprocess(v) \/ PreprocessAgain(v)

SpecTwice == InitPasses /\ [][NextTwice]_vars

----------------------------------------------------------------------------
(* The design tokens the script imports.  The tree has the groups the      *)
(* script reads; one of its tokens, the probe, is drawn from the shapes a  *)
(* token's value and mode map can have.                                    *)

RECURSIVE joinPath(_)
joinPath(path) ==
    IF Len(path) = 1 THEN path[1] ELSE path[1] \o <<".">> \o joinPath(Tail(path))

\* the reference string that names the token at a path
reference(path) == <<"{">> \o joinPath(path) \o <<"}">>

Token(type, value) == Obj((kType :> Str(<<type>>)) @@ (kValue :> value))
WithModes(token, modes) == Obj(token.f @@ (kExtensions :> Obj(kMode :> Obj(modes))))

kDefault == K("Default")
slate500 == <<kColorPrimitives, K("Slate"), K("500")>>
backgroundDefault == <<kTheme, K("Background"), kDefault, kDefault>>
bodyFontFamily == <<kTheme, K("Body"), Words2("Font", "Family")>>
scale14 == <<kTypographyPrimitives, K("Scale"), Words2("Scale", "14")>>
familySans == <<kTypographyPrimitives, K("Family"), Words2("Family", "Sans")>>
weightRegular == <<kTypographyPrimitives, K("Weight"), Words2("Weight", "Regular")>>

ReferenceTargets == {slate500, backgroundDefault, bodyFontFamily}

ProbeValues ==
    {Str(<<"#fff">>)}
    \cup {Str(reference(p)) : p \in ReferenceTargets}
    \cup {Arr(<<Str(reference(p)), Str(<<"sans-serif">>)>>) : p \in ReferenceTargets}
    \cup {Arr(<<Obj((K("color") :> Str(reference(p))) @@ (K("offsetX") :> Str(<<"0px">>)))>>) :
             p \in ReferenceTargets}
    \cup {Obj((K("color") :> Str(reference(p)))
              @@ (K("inner") :> Obj(K("color") :> Str(reference(p))))) :
             p \in ReferenceTargets}
    \cup {Obj(K("stops") :> Arr(<<Str(reference(p))>>)) : p \in ReferenceTargets}

ProbeModes ==
    {EmptyObject,
     (K("Light") :> Str(reference(slate500))) @@ (K("Dark") :> Str(<<"#000">>))}

Probes ==
    {IF modes = EmptyObject THEN Token("color", value)
     ELSE WithModes(Token("color", value), modes) :
        value \in ProbeValues, modes \in ProbeModes}

ProbeSites == {"Border", "Drop Shadow", "Typography-styles"}

colorToken == Token("color", Str(reference(slate500)))
colorGroup == Obj(kDefault :> Obj(kDefault :> colorToken))
utilities == Obj(K("Overlay") :> Token("color", Str(<<"#0006">>)))
shadowToken ==
    Token("shadow",
          Arr(<<Obj((K("color") :> Str(reference(slate500)))
                    @@ (K("offsetX") :> Str(<<"0px">>)))>>))
styleToken ==
    Token("typography",
          Obj((K("fontFamily") :> Str(reference(bodyFontFamily)))
              @@ (K("fontSize") :> Str(reference(<<kTheme, K("Body"), Words3("Font", "Size", "Small")>>)))))

DesignTree(site, probe) ==
    Obj((kColorPrimitives :>
            Obj(K("Slate") :> Obj(K("500") :> Token("color", Str(<<"#64748b">>)))))
     @@ (kTheme :>
            Obj((K("Background") :> colorGroup)
             @@ (K("Text") :> colorGroup)
             @@ (K("Icon") :> colorGroup)
             @@ (K("Border") :>
                    Obj((kDefault :>
                            Obj(kDefault :> IF site = "Border" THEN probe ELSE colorToken))
                     @@ (kUtilities :> utilities)))
             @@ (K("Body") :>
                    Obj((Words2("Font", "Family") :> Token("string", Str(reference(familySans))))
                     @@ (Words3("Font", "Size", "Small") :> Token("number", Str(reference(scale14))))
                     @@ (Words3("Font", "Weight", "Regular") :>
                            Token("number", Str(reference(weightRegular))))))))
     @@ (kSize :>
            Obj((K("Space") :> Obj(K("400") :> Token("number", Str(<<"16", "px">>))))
             @@ (K("Icon") :> Obj(K("Small") :> Token("number", Str(<<"24", "px">>))))
             @@ (K("Radius") :> Obj(K("200") :> Token("number", Str(<<"8", "px">>))))
             @@ (K("Depth") :> Obj(K("100") :> Token("number", Str(<<"4">>))))
             @@ (K("Blur") :> Obj(K("100") :> Token("number", Str(<<"4", "px">>))))
             @@ (K("Stroke") :>
                    Obj((K("Border") :> Token("number", Str(<<"1", "px">>)))
                     @@ (Words2("Focus", "Ring") :> Token("number", Str(<<"2", "px">>)))))))
     @@ (kTypographyPrimitives :>
            Obj((K("Family") :> Obj(Words2("Family", "Sans") :> Token("string", Str(<<"Inter">>))))
             @@ (K("Scale") :> Obj(Words2("Scale", "14") :> Token("number", Str(<<"14", "px">>))))
             @@ (K("Weight") :>
                    Obj((Words2("Weight", "Regular") :> Token("number", Str(<<"400">>)))
                     @@ (Words3("Weight", "Regular", "Italic") :>
                            Token("string", Str(<<"Regular Italic">>)))))))
     @@ (kTypographyStyles :>
            Obj((K("Body") :>
                    Obj(K("Base") :> IF site = "Typography-styles" THEN probe ELSE styleToken))
             @@ (<<".", "Utilities">> :> Obj(K("Link") :> styleToken))))
     @@ (kEffectStyles :>
            Obj((Words2("Drop", "Shadow") :>
                    Obj(K("100") :> IF site = "Drop Shadow" THEN probe ELSE shadowToken))
             @@ (Words2("Inner", "Shadow") :> Obj(K("100") :> shadowToken)))))

DesignTrees == {DesignTree(site, probe) : site \in ProbeSites, probe \in Probes}

----------------------------------------------------------------------------
(* The build script's run: the module's top level evaluates                *)
(* tailwindTokensFiles, then the loop maps and writes one file after the   *)
(* other.                                                                  *)

\* no preprocessor is part of the run
NoPreprocess ==
    /\ input = Obj(EmptyObject)
    /\ dictionary = Undefined
    /\ out = [v \in Variants |-> NotRun]

\* JSON.stringify, read back: a property whose value is undefined is left out
RECURSIVE stringify(_)
stringify(x) ==
    CASE x.t = "obj" ->
            Obj([k \in {j \in DOMAIN x.f : x.f[j] # Undefined} |-> stringify(x.f[k])])
      [] x.t = "arr" -> Arr([i \in DOMAIN x.items |-> stringify(x.items[i])])
      [] OTHER -> x

InitBuild ==
    /\ \E tree \in DesignTrees :
          LET s == Store(In(EmptyHeap, "design"), tree)
          IN heap = s.h.mem /\ designTokens = s.v
    /\ pc = "reshape"
    /\ files = <<>>
    /\ walk = Idle
    /\ written = <<>>
    /\ NoPreprocess
    /\ hist = <<>>

\* the script goes on with what the declarations evaluated to, unless one
\* of them threw
Reshaped(r) ==
    IF r.h.err
    THEN pc' = "error" /\ UNCHANGED <<heap, files>>
    ELSE pc' = "loop" /\ heap' = r.h.mem /\ files' = r.v

\* mapObject is where r left it, unless r threw
Walked(r) ==
    IF r.h.err
    THEN pc' = "error" /\ UNCHANGED <<heap, walk>>
    ELSE pc' = "map" /\ heap' = r.h.mem /\ walk' = r.w

\* the declarations from typographyTheme to tailwindTokensFiles
Reshape ==
    /\ pc = "reshape"
    /\ Reshaped(tailwindTokensFiles(In(heap, "build"), designTokens))
    /\ UNCHANGED <<input, dictionary, out, designTokens, walk, written, hist>>

\* the loop takes the next file: mapTokens clones its tokens
BeginMapTokens ==
    /\ pc = "loop"
    /\ Len(written) < Len(files)
    /\ Walked(mapTokensBegin(In(heap, "build"), files[Len(written) + 1].tokens, "rewrite"))
    /\ UNCHANGED <<input, dictionary, out, designTokens, files, written, hist>>

\* mapObject takes one entry, and calls the loop's mapper when it is a token
MapStep ==
    /\ pc = "map"
    /\ walk.stack # <<>>
    /\ Walked(mapStep(In(heap, "build"), walk))
    /\ UNCHANGED <<input, dictionary, out, designTokens, files, written, hist>>

\* await outputTokens(file, transformedTokens)
OutputTokens ==
    /\ pc = "map"
    /\ walk.stack = <<>>
    /\ written' = Append(written,
                     [file |-> files[Len(written) + 1].file,
                      tokens |-> stringify(Deref(In(heap, "build"), walk.root))])
    /\ walk' = Idle
    /\ pc' = IF Len(written) + 1 = Len(files) THEN "done" ELSE "loop"
    /\ UNCHANGED <<heap, input, dictionary, out, designTokens, files, hist>>

NextBuild == Reshape \/ BeginMapTokens \/ MapStep \/ OutputTokens

SpecBuild == InitBuild /\ [][NextBuild]_vars

----------------------------------------------------------------------------
(* rewriteReferences on its own: a string is rewritten again and again.    *)

MaxSegments == 2
MaxPasses == 2

ReferenceRoots ==
    {kTheme, kSize, kColorPrimitives, kTypographyPrimitives, K("font"), K("text")}

ReferenceSegments ==
    {K("Body"), K("Depth"), K("Scale"), K("Weight"), K("Family"),
     Words2("Font", "Family"), Words3("Font", "Size", "Small"),
     Words2("Letter", "Spacing"), Words2("Line", "Height"), Words2("Scale", "14"),
     Words2("Weight", "Regular"), Words2("Family", "Sans")}

\* {Root.Segment. ... .Segment}
ReferenceStrings ==
    {reference(<<root>> \o path) :
        root \in ReferenceRoots,
        path \in UNION {[1..n -> ReferenceSegments] : n \in 1..MaxSegments}}

\* strings that hold no reference
PlainStrings ==
    {<<"#fff">>, <<"16", "px">>, <<"Inter">>,
     joinPath(bodyFontFamily), joinPath(slate500), joinPath(scale14)}

InitRewrite ==
    /\ \E s \in ReferenceStrings \cup PlainStrings : hist = <<s>>
    /\ heap = EmptyHeap
    /\ NoPreprocess
    /\ NoBuild

Rewrite ==
    /\ Len(hist) <= MaxPasses
    /\ hist' = Append(hist, rewriteReferences(hist[Len(hist)]))
    /\ UNCHANGED <<heap, input, dictionary, out, pc, designTokens, files, walk, written>>

SpecRewrite == InitRewrite /\ [][Rewrite]_vars

----------------------------------------------------------------------------
(* The build script on other exports: the export of the document with one  *)
(* of the groups the script reads taken out, or with other tokens in the   *)
(* groups whose tokens the script converts or renames.                     *)

\* the tree without what it holds at path
RECURSIVE without(_, _)
without(tree, path) ==
    IF Len(path) = 1
    THEN Obj([k \in DOMAIN tree.f \ {path[1]} |-> tree.f[k]])
    ELSE Obj([tree.f EXCEPT ![path[1]] = without(@, Tail(path))])

\* the tree with node at path
RECURSIVE replaced(_, _, _)
replaced(tree, path, node) ==
    IF Len(path) = 1
    THEN Obj((path[1] :> node) @@ tree.f)
    ELSE Obj([tree.f EXCEPT ![path[1]] = replaced(@, Tail(path), node)])

Export == DesignTree("Border", colorToken)

\* the paths of designTokens that typographyTheme, themeTokens and
\* typographyTokens read
SourcePaths ==
    { <<kTheme>>, <<kColorPrimitives>>,
      <<kTheme, K("Background")>>, <<kTheme, K("Text")>>, <<kTheme, K("Icon")>>,
      <<kTheme, K("Border")>>,
      <<kSize, K("Space")>>, <<kSize, K("Icon")>>,
      <<kTypographyPrimitives>>,
      <<kTypographyPrimitives, K("Scale")>>, <<kTypographyPrimitives, K("Weight")>>,
      <<kSize, K("Radius")>>, <<kSize, K("Depth")>>,
      <<kEffectStyles, Words2("Drop", "Shadow")>>,
      <<kEffectStyles, Words2("Inner", "Shadow")>>,
      <<kSize, K("Blur")>>,
      <<kSize, K("Stroke"), K("Border")>>,
      <<kSize, K("Stroke"), Words2("Focus", "Ring")>>,
      <<kTypographyStyles>> }

\* an export lacks a source path from one of its segments on
PartialTrees ==
    UNION {{without(Export, SubSeq(p, 1, n)) : n \in 1..Len(p)} : p \in SourcePaths}

\* a literal of n pixels
px(n) == Str(<<ToString(n), "px">>)

space400 == <<kSize, K("Space"), K("400")>>

\* the tokens pxToRem meets: a literal or a reference as the value, and as
\* the values of the modes
UnitTokens ==
    UNION {{ Token("number", px(n)),
             WithModes(Token("number", px(n)),
                       (K("Base") :> px(MaxPx - n)) @@ (K("Compact") :> px(n))
                       @@ (K("Comfortable") :> Str(reference(scale14)))),
             WithModes(Token("number", Str(reference(scale14))),
                       (K("Base") :> px(n)) @@ (K("Compact") :> Str(reference(space400)))) } :
              n \in 0..MaxPx}

\* an export with one of them as Size.Space.400
UnitTrees == {replaced(Export, space400, token) : token \in UnitTokens}

MaxItems == 2

\* names of the items of a typography category of the Theme
ItemNames ==
    { Words2("Font", "Family"), Words3("Font", "Family", "Mono"),
      Words2("Font", "Size"), Words3("Font", "Size", "Small"),
      Words3("Small", "Font", "Size"), Words3("Font", "Weight", "Bold"),
      Words2("Letter", "Spacing"), Words3("Letter", "Spacing", "Wide"),
      Words3("Line", "Height", "Tight"), Words2("Paragraph", "Spacing") }

kDescription == K("$description")

\* the token of an item: it says whose it is
itemToken(category, item) ==
    Obj(Token("number", px(12)).f @@ (kDescription :> Str(joinPath(<<category, item>>))))

category(name, items) == Obj([item \in items |-> itemToken(name, item)])

\* an export whose Theme has the typography categories Body and Heading
TypographyTrees ==
    {replaced(replaced(Export, <<kTheme, K("Body")>>, category(K("Body"), items)),
              <<kTheme, K("Heading")>>,
              category(K("Heading"), {Words2("Font", "Size"), Words2("Line", "Height")})) :
        items \in {i \in SUBSET ItemNames : Cardinality(i) <= MaxItems}}

InitSources ==
    /\ \E tree \in PartialTrees \cup UnitTrees \cup TypographyTrees :
          LET s == Store(In(EmptyHeap, "design"), tree)
          IN heap = s.h.mem /\ designTokens = s.v
    /\ pc = "reshape"
    /\ files = <<>>
    /\ walk = Idle
    /\ written = <<>>
    /\ NoPreprocess
    /\ hist = <<>>

SpecSources == InitSources /\ [][NextBuild]_vars

----------------------------------------------------------------------------
(* What the claims speak of: the tokens of the input tree and what a pass  *)
(* returned for them.                                                      *)

Ran(v) == out[v] # NotRun
OutTree(v) == Deref(In(heap, "input"), out[v])
TokenNames == DOMAIN input.f[K("Theme")].f
InToken(name) == input.f[K("Theme")].f[name].f
OutToken(v, name) == OutTree(v).f[K("Theme")].f[name].f
CarriesModes(tok) == Has(tok, kExtensions)
ModesIn(tok) == tok[kExtensions].f[kMode].f
LightKey(v) == themes[v][1]
DarkKey(v) == themes[v][2]
SizeKeys == {K("Base"), K("Compact"), K("Comfortable")}
PairPresent(tok, v) == {LightKey(v), DarkKey(v)} \subseteq DOMAIN ModesIn(tok)
PairDiffers(tok, v) ==
    PairPresent(tok, v) /\ ModesIn(tok)[LightKey(v)] # ModesIn(tok)[DarkKey(v)]
SizesPresent(tok) == SizeKeys \subseteq DOMAIN ModesIn(tok)
SizesDiffer(tok) ==
    /\ SizesPresent(tok)
    /\ \E j, k \in SizeKeys : ModesIn(tok)[j] # ModesIn(tok)[k]
ToggleSyntax == {"light-dark(", "var(--is-"}
Atoms(s) == {s[i] : i \in DOMAIN s}

\* C1: a token whose mode map holds the selected light and dark keys with
\* different values gets the value light-dark(<light>, <dark>) when its type
\* is color and var(--is-light, <light>) var(--is-dark, <dark>) otherwise.
C1_LightDarkCollapse ==
    \A v \in Variants : \A name \in TokenNames :
        LET tok == InToken(name)
            l == ModesIn(tok)[LightKey(v)].s
            d == ModesIn(tok)[DarkKey(v)].s
        IN (Ran(v) /\ CarriesModes(tok) /\ PairDiffers(tok, v)) =>
            OutToken(v, name)[kValue].s =
                IF tok[kType].s = <<"color">>
                THEN <<"light-dark(">> \o l \o <<", ">> \o d \o <<")">>
                ELSE <<"var(--is-", "light", ", ">> \o l \o <<")", " ",
                       "var(--is-", "dark", ", ">> \o d \o <<")">>

\* a brand-2 pass has collapsed a dimension token whose brand-2 values differ
C1_Witness ==
    /\ Ran("brand-2")
    /\ \E name \in TokenNames :
        /\ CarriesModes(InToken(name))
        /\ PairDiffers(InToken(name), "brand-2")
        /\ InToken(name)[kType].s = <<"dimension">>

\* C2: a token with Base, Compact and Comfortable values that are not all
\* equal, and without the selected light/dark pair, gets the three values in
\* three chained fallbacks, base then compact then comfortable.
C2_SizeCollapse ==
    \A v \in Variants : \A name \in TokenNames :
        LET tok == InToken(name)
            m == ModesIn(tok)
        IN (Ran(v) /\ CarriesModes(tok) /\ ~PairPresent(tok, v) /\ SizesDiffer(tok)) =>
            OutToken(v, name)[kValue].s =
                <<"var(--is-", "size-base", ", ">> \o m[K("Base")].s
                \o <<")", " ", "var(--is-", "size-compact", ", ">> \o m[K("Compact")].s
                \o <<")", " ", "var(--is-", "size-comfortable", ", ">>
                \o m[K("Comfortable")].s \o <<")">>

\* the default pass has collapsed a token whose Base and Compact values are
\* equal and whose Comfortable value is another
C2_Witness ==
    /\ Ran("default")
    /\ \E name \in TokenNames :
        LET tok == InToken(name)
        IN /\ CarriesModes(tok)
           /\ ~PairPresent(tok, "default")
           /\ SizesDiffer(tok)
           /\ ModesIn(tok)[K("Base")] = ModesIn(tok)[K("Compact")]

\* C3: a token whose values of the matched dimension are all identical gets
\* that single mode value as its value, free of toggle syntax.
C3_EqualityShortCircuit ==
    \A v \in Variants : \A name \in TokenNames :
        LET tok == InToken(name)
            m == ModesIn(tok)
            result == OutToken(v, name)[kValue].s
        IN (Ran(v) /\ CarriesModes(tok)) =>
            /\ (PairPresent(tok, v) /\ ~PairDiffers(tok, v)) =>
                  /\ result = m[LightKey(v)].s
                  /\ Atoms(result) \cap ToggleSyntax = {}
            /\ (~PairPresent(tok, v) /\ SizesPresent(tok) /\ ~SizesDiffer(tok)) =>
                  /\ result = m[K("Base")].s
                  /\ Atoms(result) \cap ToggleSyntax = {}

OtherVariantKeys(v) ==
    UNION {{LightKey(w), DarkKey(w)} : w \in Variants \ {v}}

OwnExpressions(tok, v) ==
    LET m == ModesIn(tok)
    IN {tok[kValue].s}
       \cup (IF PairPresent(tok, v)
             THEN {<<"light-dark(">> \o m[LightKey(v)].s \o <<", ">>
                      \o m[DarkKey(v)].s \o <<")">>,
                   <<"var(--is-", "light", ", ">> \o m[LightKey(v)].s
                      \o <<")", " ", "var(--is-", "dark", ", ">>
                      \o m[DarkKey(v)].s \o <<")">>}
             ELSE {})
       \cup (IF SizesPresent(tok)
             THEN {<<"var(--is-", "size-base", ", ">> \o m[K("Base")].s
                      \o <<")", " ", "var(--is-", "size-compact", ", ">>
                      \o m[K("Compact")].s
                      \o <<")", " ", "var(--is-", "size-comfortable", ", ">>
                      \o m[K("Comfortable")].s \o <<")">>}
             ELSE {})

C5_SparsePassThrough ==
    \A v \in Variants : \A name \in TokenNames :
        LET tok == InToken(name)
        IN (Ran(v) /\ CarriesModes(tok) /\ ~PairPresent(tok, v) /\ ~SizesPresent(tok)) =>
            /\ OutToken(v, name)[kType] = tok[kType]
            /\ OutToken(v, name)[kValue] = tok[kValue]

\* the default pass has met a token with a Light value, no Dark value, and
\* Base and Compact values without a Comfortable one
C5_Witness ==
    /\ Ran("default")
    /\ \E name \in TokenNames :
        LET tok == InToken(name)
        IN /\ CarriesModes(tok)
           /\ DOMAIN ModesIn(tok) = {K("Light"), K("Base"), K("Compact")}

\* what the pass for v returns when it is the only pass run on the input
Alone(v) ==
    LET s == Store(In(EmptyHeap, "input"), input)
        r == resolveModes(In(s.h.mem, v), s.v, themes[v])
    IN Deref(r.h, r.v)

\* C6: whatever passes have run and in whatever order, each pass returned
\* what it returns when run alone, and the input tree is as it was.
C6_PassesIndependent ==
    /\ Deref(In(heap, "input"), dictionary) = input
    /\ \A v \in Variants : Ran(v) => OutTree(v) = Alone(v)

\* all three passes have run over a token that the default pass collapsed
\* and that the brand-2 pass returned as it stood
C6_Witness ==
    /\ \A v \in Variants : Ran(v)
    /\ \E name \in TokenNames :
        LET tok == InToken(name)
        IN /\ CarriesModes(tok)
           /\ PairDiffers(tok, "default")
           /\ PairPresent(tok, "brand-2")
           /\ ~PairDiffers(tok, "brand-2")

\* the toggles of the size dimension
SizeToggles == {"size-base", "size-compact", "size-comfortable"}

\* what the light/dark branch alone gives a token for a variant
LightDarkOnly(tok, v) ==
    IF ~PairDiffers(tok, v) THEN tok[kValue]
    ELSE LET l == ModesIn(tok)[LightKey(v)].s
             d == ModesIn(tok)[DarkKey(v)].s
         IN IF tok[kType] = Str(<<"color">>)
            THEN Str(<<"light-dark(">> \o l \o <<", ">> \o d \o <<")">>)
            ELSE Str(<<"var(--is-", "light", ", ">> \o l \o <<")", " ",
                       "var(--is-", "dark", ", ">> \o d \o <<")">>)

\* C16: a token whose mode map holds the selected light/dark pair and all
\* of Base, Compact and Comfortable goes through the light/dark branch only:
\* its value has no size toggle and is what the pair and the token's own
\* value give, whatever the size values are.
C16_OneDimension ==
    \A v \in Variants : \A name \in TokenNames :
        LET tok == InToken(name)
        IN (Ran(v) /\ CarriesModes(tok) /\ PairPresent(tok, v) /\ SizesPresent(tok)) =>
              /\ Atoms(OutToken(v, name)[kValue].s) \cap SizeToggles = {}
              /\ OutToken(v, name)[kValue] = LightDarkOnly(tok, v)
              /\ ModesIn(OutToken(v, name)) = ModesIn(tok)

\* light and dark are equal, the sizes differ, and the default pass has run
C16_Witness ==
    \E name \in TokenNames :
        LET tok == InToken(name)
        IN /\ Ran("default")
           /\ CarriesModes(tok)
           /\ PairPresent(tok, "default")
           /\ ~PairDiffers(tok, "default")
           /\ SizesDiffer(tok)
           /\ OutToken("default", name)[kValue] = tok[kValue]

\* C17: on every token tree, resolveModes of the single-theme configuration
\* returns the tree that the parameterized resolveModes returns for the
\* keys of the default theme, Light and Dark.
C17_VersionsAgree ==
    (Ran(SingleTheme) /\ Ran("default")) =>
        /\ themes["default"] = <<K("Light"), K("Dark")>>
        /\ OutTree(SingleTheme) = OutTree("default")

\* both have run on a token whose Light and Dark differ, or whose three
\* sizes differ, and have given it a new value
C17_Witness ==
    /\ Ran(SingleTheme)
    /\ Ran("default")
    /\ \E name \in TokenNames :
          /\ CarriesModes(InToken(name))
          /\ \/ PairDiffers(InToken(name), "default")
             \/ SizesDiffer(InToken(name)) /\ ~PairPresent(InToken(name), "default")
          /\ OutToken(SingleTheme, name)[kValue] # InToken(name)[kValue]

\* C18: a pass applied to the tree it returned returns that tree again: a
\* collapsed value is not wrapped in another light-dark( or var(--is-
\* expression.
C18_PassIdempotent ==
    \A v \in Variants :
        Ran(Again(v)) =>
            /\ OutTree(Again(v)) = OutTree(v)
            /\ \A name \in TokenNames :
                  \A toggle \in ToggleSyntax :
                      Cardinality({i \in DOMAIN OutToken(Again(v), name)[kValue].s :
                                      OutToken(Again(v), name)[kValue].s[i] = toggle})
                      <= (IF toggle = "light-dark(" THEN 1 ELSE 3)

\* the default pass has collapsed a pair, and has run again on its result
C18_Witness ==
    /\ Ran(Again("default"))
    /\ \E name \in TokenNames :
          /\ CarriesModes(InToken(name))
          /\ PairDiffers(InToken(name), "default")
          /\ "light-dark(" \in Atoms(OutToken(Again("default"), name)[kValue].s)

----------------------------------------------------------------------------
(* What the claims speak of in the build script's run.                     *)

BuildHeap == In(heap, "build")

\* the paths from a value down to the tokens below it
RECURSIVE tokenPaths(_, _)
tokenPaths(h, v) ==
    IF v.t # "ref" THEN {}
    ELSE IF isToken(h, v) THEN {<<>>}
    ELSE UNION {{<<k>> \o p : p \in tokenPaths(h, At(h, v.a)[k])} : k \in DOMAIN At(h, v.a)}

\* the themeTokens object and the tree the loop's mapTokens is working on
ThemeTokens == files[1].tokens
Working == Deref(BuildHeap, walk.clone)
Source == Deref(BuildHeap, designTokens)

\* C7: a step of the mapper on the token under one target root leaves the
\* token values under every other root, and those of the source tree, as
\* they were.
C7_NonAliasing ==
    [][(pc = "map" /\ pc' = "map") =>
          LET before == Working.f
              after == Working'.f
              changed == {r \in DOMAIN before : after[r] # before[r]}
          IN /\ Source' = Source
             /\ \A r1, r2 \in changed : r1 = r2]_vars

\* C8: a source token that themeTokens holds under a target path has its
\* reference {<source path>} rewritten to {<target path>}.
C8_ReferencesFollowTokens ==
    (pc = "loop" /\ written = <<>>) =>
        \A S \in tokenPaths(BuildHeap, designTokens) :
            LET targets == {T \in tokenPaths(BuildHeap, ThemeTokens) :
                               Chain(BuildHeap, ThemeTokens, T).v
                               = Chain(BuildHeap, designTokens, S).v}
            IN targets # {} =>
                  rewriteReferences(reference(S)) \in {reference(T) : T \in targets}

\* rewriteReferences applied to every string below a value
RECURSIVE rewriteEvery(_)
rewriteEvery(x) ==
    CASE x.t = "str" -> Str(rewriteReferences(x.s))
      [] x.t = "obj" -> Obj([k \in DOMAIN x.f |-> rewriteEvery(x.f[k])])
      [] x.t = "arr" -> Arr([i \in DOMAIN x.items |-> rewriteEvery(x.items[i])])
      [] OTHER -> x

\* a tree in which every token has every string of its value and of its
\* mode map rewritten
RECURSIVE everyTokenRewritten(_)
everyTokenRewritten(x) ==
    IF x.t # "obj" THEN x
    ELSE IF Has(x.f, kValue)
    THEN Obj([k \in DOMAIN x.f |->
                IF k = kValue THEN rewriteEvery(x.f[k])
                ELSE IF k = kExtensions /\ x.f[k].t = "obj" /\ Has(x.f[k].f, kMode)
                THEN Obj((kMode :> rewriteEvery(x.f[k].f[kMode])) @@ x.f[k].f)
                ELSE x.f[k]])
    ELSE Obj([k \in DOMAIN x.f |-> everyTokenRewritten(x.f[k])])

\* C9: a written file holds the tokens it was given with rewriteReferences
\* applied to every string inside every token: the direct value, the
\* elements of a list, the fields of a structured value at any depth, and
\* the entries of the mode map.
C9_RewriteCoverage ==
    \A i \in DOMAIN written :
        written[i].tokens
        = stringify(everyTokenRewritten(Deref(BuildHeap, files[i].tokens)))

\* C10: rewriting a reference string a second time changes nothing; a string
\* without { is returned as it is; and no rule matches what a rewriting
\* returned.
C10_RewriteIdempotent ==
    /\ Len(hist) >= 3 => hist[3] = hist[2]
    /\ (Len(hist) >= 2 /\ ~includes(hist[1], <<"{">>)) => hist[2] = hist[1]
    /\ Len(hist) >= 2 => \A n \in DOMAIN rules : replaceAll(hist[2], rules[n]) = hist[2]

\* a reference into the Theme typography has been rewritten, then rewritten
\* again
C10_Witness ==
    /\ Len(hist) = 3
    /\ hist[1] = reference(bodyFontFamily)
    /\ hist[2] = reference(<<K("font"), K("Body")>>)

----------------------------------------------------------------------------
(* What the claims speak of in the build script's run on other exports.    *)

\* the tree holds something at path
RECURSIVE present(_, _)
present(tree, path) ==
    \/ path = <<>>
    \/ /\ tree.t = "obj"
       /\ Has(tree.f, Head(path))
       /\ present(tree.f[Head(path)], Tail(path))

\* C11: when the export lacks a source path that a recipe of themeTokens or
\* typographyTokens names, the declarations end in an error; the script
\* never goes on with an empty or partial target group.
C11_FailFast ==
    (pc # "reshape" /\ \E p \in SourcePaths : ~present(Source, p)) => pc = "error"

\* n sixteenths in decimal, by long division
RECURSIVE decimals(_)
decimals(r) ==
    IF r = 0 THEN ""
    ELSE ToString((r * 10) \div 16) \o decimals((r * 10) % 16)

sixteenths(n) ==
    ToString(n \div 16) \o (IF n % 16 = 0 THEN "" ELSE "." \o decimals(n % 16))

\* what the claim says of a value: a reference stays, n px becomes n/16 rem
inRem(value) ==
    IF includes(value.s, <<"{">>) THEN value
    ELSE LET n == CHOOSE m \in 0..MaxPx : value = px(m)
         IN Str(<<sixteenths(n), "rem">>)

SpaceIn == Source.f[kSize].f[K("Space")].f[K("400")].f
SpaceOut == Deref(BuildHeap, Chain(BuildHeap, ThemeTokens, <<K("spacing"), K("400")>>).v).f
IsUnitRun == present(Source, space400) /\ Source.f[kSize].f[K("Space")].f[K("400")] \in UnitTokens

\* C12: pxToRem replaces a literal pixel value by its sixteenth in rem, does
\* the same to every value of the mode map, and leaves the value and the
\* mode values that hold a reference as they are.
C12_UnitConversion ==
    (pc = "loop" /\ IsUnitRun) =>
        /\ DOMAIN SpaceOut = DOMAIN SpaceIn
        /\ SpaceOut[kValue] = inRem(SpaceIn[kValue])
        /\ SpaceOut[kType] = SpaceIn[kType]
        /\ CarriesModes(SpaceIn) =>
              /\ DOMAIN ModesIn(SpaceOut) = DOMAIN ModesIn(SpaceIn)
              /\ \A k \in DOMAIN ModesIn(SpaceIn) :
                    ModesIn(SpaceOut)[k] = inRem(ModesIn(SpaceIn)[k])

\* 14px with modes of 10px, 14px and a reference has been converted
C12_Witness ==
    /\ pc = "loop"
    /\ IsUnitRun
    /\ SpaceIn[kValue] = px(14)
    /\ CarriesModes(SpaceIn)
    /\ SpaceOut[kValue] = Str(<<"0.875", "rem">>)
    /\ ModesIn(SpaceOut)[K("Base")] = Str(<<"0.625", "rem">>)
    /\ ModesIn(SpaceOut)[K("Comfortable")] = Str(reference(scale14))

\* the roots of themeTokens that take the items of a prefix
RenameRoots ==
    (K("font") :> Words2("Font", "Family"))
    @@ (K("text") :> Words2("Font", "Size"))
    @@ (K("font-weight") :> Words2("Font", "Weight"))
    @@ (K("tracking") :> Words2("Letter", "Spacing"))
    @@ (K("leading") :> Words2("Line", "Height"))

IsTypographyRun == present(Source, <<kTheme, K("Heading")>>)

\* the (category, item) pairs of the typography theme
Categories == DOMAIN Source.f[kTheme].f \ {K("Background"), K("Text"), K("Icon"), K("Border")}
Pairs == UNION {{<<g, i>> : i \in DOMAIN Source.f[kTheme].f[g].f} : g \in Categories}

\* the item name after its leading prefix
afterPrefix(item, prefix) == SubSeq(item, Len(prefix) + 1, Len(item))

\* what themeTokens holds under a root, and whose token an entry is
Target(root) == Deref(BuildHeap, Chain(BuildHeap, ThemeTokens, <<root>>).v).f
IsItem(entry) == entry.t = "obj" /\ Has(entry.f, kDescription)
Owner(p) == Str(joinPath(p))

\* C13: extractTypographyTokensWithPrefix(prefix) holds an entry for a
\* (category, item) pair only if the item name starts with prefix; the key
\* is the category name followed by the item name without its leading
\* prefix, and the token is the item's; other items contribute no entry.
C13_RenamingPolicy ==
    (pc = "loop" /\ IsTypographyRun) =>
        \A root \in DOMAIN RenameRoots :
            LET prefix == RenameRoots[root]
                target == Target(root)
            IN /\ \A p \in Pairs :
                    startsWith(p[2], prefix) =>
                        /\ Has(target, p[1] \o afterPrefix(p[2], prefix))
                        /\ IsItem(target[p[1] \o afterPrefix(p[2], prefix)])
                        /\ target[p[1] \o afterPrefix(p[2], prefix)].f[kDescription] = Owner(p)
               /\ \A key \in DOMAIN target :
                    IsItem(target[key]) =>
                        \E p \in Pairs :
                            /\ target[key].f[kDescription] = Owner(p)
                            /\ startsWith(p[2], prefix)
                            /\ key = p[1] \o afterPrefix(p[2], prefix)
               /\ (root \in {K("font"), K("font-weight")}) =>
                    \A p \in Pairs :
                        startsWith(p[2], prefix) =>
                            Chain(BuildHeap, ThemeTokens,
                                  <<root, p[1] \o afterPrefix(p[2], prefix)>>).v
                            = Chain(BuildHeap, designTokens, <<kTheme>> \o p).v

\* Body has Font Size Small, which is kept as text['Body Small'], and Small
\* Font Size, which is not kept
C13_Witness ==
    /\ pc = "loop"
    /\ IsTypographyRun
    /\ DOMAIN Source.f[kTheme].f[K("Body")].f
       = {Words3("Font", "Size", "Small"), Words3("Small", "Font", "Size")}
    /\ DOMAIN Target(K("text")) \cap {Words2("Body", "Small"), K("Heading")}
       = {Words2("Body", "Small"), K("Heading")}

\* the roots whose items rewriteReferences has a rule for
RewrittenRoots == {K("font"), K("text"), K("tracking"), K("leading")}

\* the item name is the prefix, or the prefix, a space and a suffix
prefixAndSuffix(item, prefix) ==
    startsWith(item, prefix) /\ (item = prefix \/ startsWith(afterPrefix(item, prefix), <<" ">>))

\* the keys under which themeTokens holds the token of a pair below a root
StoredKeys(root, p) ==
    {key \in DOMAIN Target(root) :
        IsItem(Target(root)[key]) /\ Target(root)[key].f[kDescription] = Owner(p)}

\* C15: for a Theme typography item named by one of the prefixes Font
\* Family, Font Size, Letter Spacing and Line Height alone or followed by a
\* space and a suffix, the path under which themeTokens stores the token is
\* the path inside what rewriteReferences returns for {Theme.<category>.<item>}.
C15_RenamingAgreesWithRewriting ==
    (pc = "loop" /\ IsTypographyRun) =>
        \A root \in RewrittenRoots : \A p \in Pairs :
            prefixAndSuffix(p[2], RenameRoots[root]) =>
                /\ StoredKeys(root, p) # {}
                /\ \A key \in StoredKeys(root, p) :
                      rewriteReferences(reference(<<kTheme>> \o p)) = reference(<<root, key>>)

\* Body has Font Family Mono and Letter Spacing Wide, stored as font['Body
\* Mono'] and tracking['Body Wide']
C15_Witness ==
    /\ pc = "loop"
    /\ IsTypographyRun
    /\ StoredKeys(K("font"), <<K("Body"), Words3("Font", "Family", "Mono")>>)
       = {Words2("Body", "Mono")}
    /\ StoredKeys(K("tracking"), <<K("Body"), Words3("Letter", "Spacing", "Wide")>>)
       = {Words2("Body", "Wide")}

\* the entry a step of mapObject took: the frame it was taken from, as the
\* step left it, lacks its key
TakenKey ==
    LET top == Head(walk.stack)
        left == walk'.stack[Len(walk'.stack) - Len(walk.stack) + 1]
    IN CHOOSE k \in top.todo : k \notin left.todo

\* the objects the heap held before the step, but for one, are as they were
OnlyChanged(a) ==
    \A i \in DOMAIN heap["build"] :
        <<"build", i>> # a => heap'["build"][i] = heap["build"][i]

WeightKeys == DOMAIN Source.f[kTypographyPrimitives].f[K("Weight")].f

\* what mapTokens with the mapper of font-weight leaves of the weights
SkipsItalic ==
    pc \in {"loop", "map", "done"} =>
        \A k \in WeightKeys :
            IF endsWith(k, <<" ", "Italic">>)
            THEN /\ ~Has(Target(K("font-weight")), k)
                 /\ ~Has(Target(K("font-weight")), removeLeading(k, <<"Weight", " ">>))
            ELSE Has(Target(K("font-weight")), removeLeading(k, <<"Weight", " ">>))

\* what a step of the traversal does with the entry it takes
StepOfTraversal ==
    (pc = "map" /\ pc' = "map" /\ walk.stack # <<>> /\ Head(walk.stack).todo # {}) =>
        LET top == Head(walk.stack)
            value == At(BuildHeap, top.from)[TakenKey]
            target == heap'["build"][top.to[2]]
        IN IF isToken(BuildHeap, value)
           THEN /\ Len(walk'.stack) = Len(walk.stack)
                /\ walk'.seen = walk.seen
                /\ target[TakenKey] = value
           ELSE /\ OnlyChanged(top.to)
                /\ value.t = "ref" =>
                      /\ value.a \in DOMAIN walk'.seen
                      /\ target[TakenKey] = Ref(walk'.seen[value.a])
                      /\ value.a \notin DOMAIN walk.seen =>
                            /\ Len(walk'.stack) = Len(walk.stack) + 1
                            /\ Head(walk'.stack).from = value.a
                            /\ Head(walk'.stack).todo = DOMAIN At(BuildHeap, value.a)

\* C14: mapTokens calls the mapper on the nodes that carry $value and on no
\* group; it goes into every group, and never into a token or into what the
\* mapper returned for it; a token the mapper skips is absent from the
\* result while its siblings are kept.
C14_Traversal == []SkipsItalic /\ [][StepOfTraversal]_vars

\* the weights had an italic beside the regular one, and the loop has taken
\* tokens and gone into groups
C14_Witness ==
    /\ pc = "map"
    /\ Len(walk.stack) >= 3
    /\ Head(walk.stack).todo = {}
    /\ WeightKeys = {Words2("Weight", "Regular"), Words3("Weight", "Regular", "Italic")}
    /\ Has(Target(K("font-weight")), K("Regular"))

====
